---- MODULE Spec2Model ----
(***************************************************************************)
(* A model of random_num_gen.py: the weighted sampler RandomGen, the       *)
(* class-level descriptor RandomNumberList that stores its outcome list,   *)
(* the cumulative lookup find_cumulative_probability_index_of_float and    *)
(* the shared random source.                                               *)
(*                                                                         *)
(* Numbers.  A real value is the record [m |-> a, t |-> b], standing for   *)
(* a * 10^-3 + b * 10^-30 (thousandths plus a "tiny" limb), with           *)
(* 0 <= b < 10^27 and b = 0 when a < 0.  Two limbs keep the 28 significant *)
(* digits of Python's default decimal context inside TLC's 32-bit          *)
(* integers: 1.0 is [m |-> 1000, t |-> 0], 1e-30 is [m |-> 0, t |-> 1].    *)
(* A Python value passed as a probability is such a record with a type     *)
(* tag: [type |-> "float" | "int" | "str", m, t]; a float is named by its  *)
(* shortest repr (what str() prints), a str by the number it spells.       *)
(* An outcome is [type |-> "int", val |-> n] or, for the float n/10,       *)
(* [type |-> "float", val |-> n].                                          *)
(***************************************************************************)
EXTENDS Integers, Sequences, FiniteSets, TLC

VARIABLES
    value,      \* RandomNumberList.value: the one list held by the class-level descriptor
    samplers,   \* the program's RandomGen objects, by the variable that holds them
    given,      \* history: the random_nums argument each live sampler was constructed with
    rng,        \* state of the shared random source (module random)
    args,       \* arguments of the call under test (constructor / lookup specifications)
    ret,        \* what the last call did: operation, sampler, error raised, value returned
    log         \* the seeded-run test's lists: the seed, the expected and the replayed results

vars == <<value, samplers, given, rng, args, ret, log>>

------------------------------------------------------------------------------
(* Bounds *)

MaxLen == 2         \* Spec: longest random_nums / probabilities list passed to RandomGen
MaxArgLen == 3      \* SpecCtor: longest random_nums / probabilities list
MaxTableLen == 4    \* SpecLookup: longest cumulative table
MaxSamplers == 2    \* Spec: number of program variables holding a RandomGen
RollBits == 2       \* the random source emits the rolls k / 2^RollBits, k in 0 .. 2^RollBits - 1
MaxDraws == 2       \* SpecSeed: most next_num() calls in one seeded run
MaxDrawLen == 3     \* SpecDraw: longest random_nums / probabilities list

(* decimal.getcontext().prec, the default context under which line 84 adds *)
Prec == 28

------------------------------------------------------------------------------
(* Helpers *)

RECURSIVE Pow(_, _)
Pow(b, n) == IF n <= 0 THEN 1 ELSE b * Pow(b, n - 1)

RECURSIVE Digits(_)
Digits(n) == IF n < 10 THEN 1 ELSE 1 + Digits(n \div 10)

RECURSIVE SeqsUpTo(_, _)
SeqsUpTo(S, n) ==
    IF n = 0 THEN {<<>>}
    ELSE LET shorter == SeqsUpTo(S, n - 1)
         IN  shorter \cup {Append(q, x) : q \in {p \in shorter : Len(p) = n - 1}, x \in S}

Elems(q) == {q[i] : i \in 1..Len(q)}

------------------------------------------------------------------------------
(* Numbers: exact comparison, as Python compares float with float, int and Decimal *)

Num(a, b) == [m |-> a, t |-> b]
Zero == Num(0, 0)
One == Num(1000, 0)

NumLt(x, y) == x.m < y.m \/ (x.m = y.m /\ x.t < y.t)
NumEq(x, y) == x.m = y.m /\ x.t = y.t
NumLe(x, y) == NumLt(x, y) \/ NumEq(x, y)

(* exact sum, no rounding: the reference the claims speak of *)
ExactAdd(x, y) == Num(x.m + y.m, x.t + y.t)

RECURSIVE ExactSum(_, _)
ExactSum(q, n) == IF n = 0 THEN Zero ELSE ExactAdd(ExactSum(q, n - 1), q[n])

------------------------------------------------------------------------------
(* decimal.Decimal *)

(* decimal.Decimal(0.00), line 72 *)
DecimalZero == Num(0, 0)

(* decimal.Decimal(str(probability)), line 83: str() prints the float's     *)
(* shortest repr and Decimal parses that literal exactly; the type tag goes. *)
DecimalOfStr(p) == Num(p.m, p.t)

(* ROUND_HALF_EVEN of the tiny limb b to a multiple of q *)
RoundHalfEven(b, q) ==
    LET r == b % q
        lowv == b - r
    IN  IF 2 * r > q \/ (2 * r = q /\ (lowv \div q) % 2 = 1) THEN lowv + q ELSE lowv

(* Decimal.__add__ under the default context: the exact sum, rounded to Prec *)
(* significant digits.  With a leading digit at 10^(Digits(m) - 4), the last *)
(* digit kept is 10^(Digits(m) - 3 - Prec), that is 10^(Digits(m) + 27 -     *)
(* Prec) units of the tiny limb.  A sum below 10^-3 has at most 27 digits    *)
(* and is exact.  Operands are non-negative (line 74 rejects the others).    *)
DecimalAdd(x, y) ==
    LET s == ExactAdd(x, y)
    IN  IF s.m = 0 THEN s
        ELSE Num(s.m, RoundHalfEven(s.t, Pow(10, Digits(s.m) + 27 - Prec)))

------------------------------------------------------------------------------
(* bisect.bisect (bisect_right): the insertion point after equal elements *)

RECURSIVE BisectLoop(_, _, _, _)
BisectLoop(a, x, lo, hi) ==
    IF lo < hi
    THEN LET mid == (lo + hi) \div 2
         IN  IF NumLt(x, a[mid + 1])          \* a[mid], 0-based
             THEN BisectLoop(a, x, lo, mid)
             ELSE BisectLoop(a, x, mid + 1, hi)
    ELSE lo

(* bisect.bisect_left in its place: the insertion point before equal elements *)
RECURSIVE BisectLeftLoop(_, _, _, _)
BisectLeftLoop(a, x, lo, hi) ==
    IF lo < hi
    THEN LET mid == (lo + hi) \div 2
         IN  IF NumLt(a[mid + 1], x)
             THEN BisectLeftLoop(a, x, mid + 1, hi)
             ELSE BisectLeftLoop(a, x, lo, mid)
    ELSE lo

bisect_left(a, x) == BisectLeftLoop(a, x, 0, Len(a))

bisect(a, x) == BisectLoop(a, x, 0, Len(a))

(* the lookup handing back a 1-based position *)
find_index_one_based(cumulative_probabilities, probability_float) ==
    BisectLoop(cumulative_probabilities, probability_float, 0, Len(cumulative_probabilities)) + 1

find_cumulative_probability_index_of_float(cumulative_probabilities, probability_float) ==
    bisect(cumulative_probabilities, probability_float)

------------------------------------------------------------------------------
(* Errors, by exception class and message *)

Err(e, msg) == [exc |-> e, msg |-> msg]
NoError == Err("", "")
LengthError == Err("ValueError", "Length of random_nums and probabilities must be equal.")
NumsTypeError == Err("TypeError", "All random numbers must be integers.")
NegativeError == Err("ValueError", "Probabilities must be non-negative.")
GreaterError == Err("ValueError", "Probabilities cannot be greater than 1.0.")
FloatTypeError == Err("TypeError", "Probabilities must be a list of floats.")
CompareTypeError == Err("TypeError", "'<' not supported between instances of 'str' and 'int'")
SumError == Err("ValueError", "Probabilities must sum to 1.")
IndexError == Err("IndexError", "list index out of range")

------------------------------------------------------------------------------
(* RandomNumberList.__set__ : TRUE when the assignment raises *)

IsInt(num) == num.type = "int"

RandomNumberList__set__raises(v) == \E i \in 1..Len(v) : ~IsInt(v[i])

(* the loop of RandomGen.__init__, lines 73-86, from element i on *)
RECURSIVE ProbabilityLoop(_, _, _, _, _)
ProbabilityLoop(probabilities, i, cumulative, ps, cs) ==
    IF i > Len(probabilities)
    THEN [error |-> NoError, probabilities |-> ps, cum_probabilities |-> cs]
    ELSE LET probability == probabilities[i]
             failed(e) == [error |-> e, probabilities |-> ps, cum_probabilities |-> cs]
         IN  IF probability.type = "str" THEN failed(CompareTypeError)   \* str < 0
             ELSE IF NumLt(probability, Zero) THEN failed(NegativeError)
             ELSE IF NumLt(One, probability) THEN failed(GreaterError)
             ELSE IF probability.type # "float" THEN failed(FloatTypeError)
             ELSE LET d == DecimalOfStr(probability)
                      c == DecimalAdd(cumulative, d)
                  IN  ProbabilityLoop(probabilities, i + 1, c, Append(ps, d), Append(cs, c))

(* __init__ with the probabilities checked before the outcomes are assigned *)
RandomGen__init__probabilities_first(random_nums, probabilities) ==
    LET out(e, set, ps, cs) ==
            [error |-> e, assigned |-> set, probabilities |-> ps, cum_probabilities |-> cs]
        r == ProbabilityLoop(probabilities, 1, DecimalZero, <<>>, <<>>)
        cs == r.cum_probabilities
    IN  IF Len(random_nums) # Len(probabilities) THEN out(LengthError, FALSE, <<>>, <<>>)
        ELSE IF r.error # NoError THEN out(r.error, FALSE, r.probabilities, cs)
        ELSE IF RandomNumberList__set__raises(random_nums)
             THEN out(NumsTypeError, FALSE, r.probabilities, cs)
        ELSE IF Len(cs) = 0 THEN out(IndexError, TRUE, r.probabilities, cs)
        ELSE IF ~NumEq(cs[Len(cs)], One) THEN out(SumError, TRUE, r.probabilities, cs)
        ELSE out(NoError, TRUE, r.probabilities, cs)

(* RandomGen.__init__: the error raised (NoError on success), whether the     *)
(* descriptor was assigned before it, and the new object's two lists.         *)
RandomGen__init__(random_nums, probabilities) ==
    LET out(e, set, ps, cs) ==
            [error |-> e, assigned |-> set, probabilities |-> ps, cum_probabilities |-> cs]
    IN  IF Len(random_nums) # Len(probabilities) THEN out(LengthError, FALSE, <<>>, <<>>)
        ELSE IF RandomNumberList__set__raises(random_nums)
             THEN out(NumsTypeError, FALSE, <<>>, <<>>)
        ELSE LET r == ProbabilityLoop(probabilities, 1, DecimalZero, <<>>, <<>>)
                 cs == r.cum_probabilities
             IN  IF r.error # NoError THEN out(r.error, TRUE, r.probabilities, cs)
                 ELSE IF Len(cs) = 0 THEN out(IndexError, TRUE, r.probabilities, cs)
                 ELSE IF ~NumEq(cs[Len(cs)], One) THEN out(SumError, TRUE, r.probabilities, cs)
                 ELSE out(NoError, TRUE, r.probabilities, cs)

------------------------------------------------------------------------------
(* The shared random source.  random.random() is a deterministic function   *)
(* of the generator's state; the state space is cut down to 2^RollBits      *)
(* states, stepped by a full-period congruence, each emitting one roll      *)
(* k / 2^RollBits in [0.0, 1.0).                                            *)

RngStates == 0..(Pow(2, RollBits) - 1)

RngRoll(state) == Num((state * 1000) \div Pow(2, RollBits), 0)

RngNext(state) == (5 * state + 3) % Pow(2, RollBits)

(* The float k / d, for 0 <= k < d and d a divisor of 1000 k.  A float has *)
(* FloatBits significant bits: k / d is scaled by 2^e into                 *)
(* [2^(FloatBits-1), 2^FloatBits) and rounded to the nearest integer, so   *)
(* the remainder of k * 2^e by d tells which way the float lies from k / d *)
(* (a tie cannot occur: e exceeds the power of two in d).  The float is    *)
(* kept as k / d with that direction in the low limb, at 10^-21: above     *)
(* every digit a table entry of the model has beyond 10^-3, below the gap  *)
(* between two entries, so it compares with the entries as the float does. *)
FloatBits == 53

RECURSIVE PowMod(_, _, _)
PowMod(b, e, n) == IF e = 0 THEN 1 % n ELSE (b * PowMod(b, e - 1, n)) % n

RECURSIVE ScaleLoop(_, _, _)
ScaleLoop(k, d, e) == IF k * Pow(2, e) >= d THEN e ELSE ScaleLoop(k, d, e + 1)

FloatSide(k, d) ==
    IF k = 0 THEN 0
    ELSE LET e == FloatBits - 1 + ScaleLoop(k, d, 0)
             r == (k * PowMod(2, e, d)) % d
         IN  IF r = 0 THEN 0 ELSE IF 2 * r < d THEN -1 ELSE 1

float_div(k, d) == Num((k * 1000) \div d, FloatSide(k, d) * Pow(10, 9))

------------------------------------------------------------------------------
(* Values the operations are called with *)

PyInt(n) == [type |-> "int", val |-> n]
PyFloat(a, b) == [type |-> "float", m |-> a, t |-> b]

NonInt == [type |-> "float", val |-> 31]                     \* 3.1
NoNum == [type |-> "none", val |-> 0]

Nums == {PyInt(1), PyInt(2)}
Probs == {PyFloat(500, 0), PyFloat(1000, 0)}                \* 0.5 1.0

CtorNums == {PyInt(1), PyInt(2), NonInt}
CtorProbs ==
    {PyFloat(0, 0), PyFloat(250, 0), PyFloat(500, 0), PyFloat(1000, 0),   \* 0.0 0.25 0.5 1.0
     PyFloat(0, 1),                                                  \* 1e-30
     PyFloat(1500, 0), PyFloat(-500, 0),                               \* 1.5 -0.5
     [type |-> "int", m |-> 1000, t |-> 0],                        \* 1
     [type |-> "str", m |-> 500, t |-> 0]}                         \* "0.5"

(* the argument lists each specification draws from *)
NumLists == SeqsUpTo(Nums, MaxLen)
ProbLists == SeqsUpTo(Probs, MaxLen)
CtorNumLists == SeqsUpTo(CtorNums, MaxArgLen)
CtorProbLists == SeqsUpTo(CtorProbs, MaxArgLen)

NoArgs == [random_nums |-> <<>>, probabilities |-> <<>>, table |-> <<>>, roll |-> Zero]

NoSampler == [live |-> FALSE, probabilities |-> <<>>, cum_probabilities |-> <<>>]

Idle == [op |-> "idle", who |-> 0, error |-> NoError, num |-> NoNum, index |-> 0]

NoLog == [run |-> 0, seed |-> 0, first |-> <<>>, second |-> <<>>]

------------------------------------------------------------------------------
(* Operations *)

(* g = RandomGen(random_nums, probabilities), g the program variable s.  The  *)
(* descriptor assignment of line 66 lands in the class-level object; the     *)
(* variable is bound only when __init__ returns.                             *)
Construct(s, random_nums, probabilities) ==
    LET r == RandomGen__init__(random_nums, probabilities)
    IN  /\ value' = IF r.assigned THEN [bound |-> TRUE, nums |-> random_nums] ELSE value
        /\ samplers' = IF r.error = NoError
                       THEN [samplers EXCEPT ![s] =
                                [live |-> TRUE, probabilities |-> r.probabilities,
                                 cum_probabilities |-> r.cum_probabilities]]
                       ELSE samplers
        /\ given' = IF r.error = NoError THEN [given EXCEPT ![s] = random_nums] ELSE given
        /\ ret' = [op |-> "RandomGen", who |-> s, error |-> r.error, num |-> NoNum, index |-> 0]
        /\ UNCHANGED <<rng, args>>

(* RandomNumberList.__get__: self.random_nums, the same list for every sampler *)
RandomNumberList__get__ == value.nums

(* the index next_num() computes on sampler s for a given roll, lines 103-105 *)
roll_index(s, random_roll) ==
    find_cumulative_probability_index_of_float(samplers[s].cum_probabilities, random_roll)

(* the index next_num() computes on sampler s when the random source is in *)
(* the given state, lines 100-105                                          *)
number_index_at(s, state) ==
    LET random_roll == RngRoll(state)
    IN  roll_index(s, random_roll)

(* samplers[s].next_num() *)
NextNum(s) ==
    /\ samplers[s].live
    /\ LET number_index == number_index_at(s, rng)
       IN  ret' = IF number_index < Len(RandomNumberList__get__)
                  THEN [op |-> "next_num", who |-> s, error |-> NoError,
                        num |-> RandomNumberList__get__[number_index + 1], index |-> number_index]
                  ELSE [op |-> "next_num", who |-> s, error |-> IndexError,
                        num |-> NoNum, index |-> number_index]
    /\ rng' = RngNext(rng)
    /\ UNCHANGED <<value, samplers, given, args>>

(* random.seed(a) *)
Seed(a) ==
    /\ rng' = a
    /\ ret' = [op |-> "seed", who |-> 0, error |-> NoError, num |-> NoNum, index |-> 0]
    /\ UNCHANGED <<value, samplers, given, args>>

(* find_cumulative_probability_index_of_float(args.table, args.roll), called directly *)
FindIndex ==
    /\ ret.op = "idle"
    /\ ret' = [op |-> "find_index", who |-> 0, error |-> NoError, num |-> NoNum,
               index |-> find_cumulative_probability_index_of_float(args.table, args.roll)]
    /\ UNCHANGED <<value, samplers, given, rng, args>>

(* RandomGen(args.random_nums, args.probabilities), once *)
ConstructArgs ==
    /\ ret.op = "idle"
    /\ Construct(1, args.random_nums, args.probabilities)

------------------------------------------------------------------------------
(* Spec: a program that constructs samplers, draws from them and reseeds *)

Fresh ==
    /\ value = [bound |-> FALSE, nums |-> <<>>]
    /\ samplers = [s \in 1..MaxSamplers |-> NoSampler]
    /\ given = [s \in 1..MaxSamplers |-> <<>>]
    /\ ret = Idle
    /\ log = NoLog

Init ==
    /\ Fresh
    /\ rng \in RngStates
    /\ args = NoArgs

Next ==
    \/ \E s \in 1..MaxSamplers, ns \in NumLists, ps \in ProbLists :
            Construct(s, ns, ps) /\ UNCHANGED log
    \/ \E s \in 1..MaxSamplers : NextNum(s) /\ UNCHANGED log
    \/ \E a \in RngStates : Seed(a) /\ UNCHANGED log

Spec == Init /\ [][Next]_vars

(* SpecCtor: one construction, over every argument pair within MaxArgLen *)

InitCtor ==
    /\ Fresh
    /\ rng = 0
    /\ args \in {[random_nums |-> ns, probabilities |-> ps, table |-> <<>>, roll |-> Zero] :
                    ns \in CtorNumLists, ps \in CtorProbLists}

NextCtor == ConstructArgs /\ UNCHANGED log

SpecCtor == InitCtor /\ [][NextCtor]_vars

(* SpecLookup: one lookup, over every non-decreasing table within MaxTableLen *)

(* entries 0.0, 0.25, .. 1.0 and 1e-30; rolls k / 2^RollBits, 1.0 included *)
TableVals == {Num(250 * k, 0) : k \in 0..4} \cup {Num(0, 1)}
LookupRolls == {Num((k * 1000) \div Pow(2, RollBits), 0) : k \in 0..Pow(2, RollBits)}

NonDecreasing(q) == \A i \in 1..(Len(q) - 1) : NumLe(q[i], q[i + 1])

InitLookup ==
    /\ Fresh
    /\ rng = 0
    /\ args \in {[random_nums |-> <<>>, probabilities |-> <<>>, table |-> tb, roll |-> r] :
                    tb \in {q \in SeqsUpTo(TableVals, MaxTableLen) : NonDecreasing(q)},
                    r \in LookupRolls}

NextLookup == FindIndex /\ UNCHANGED log

SpecLookup == InitLookup /\ [][NextLookup]_vars

------------------------------------------------------------------------------
(* SpecSeed: the seeded-run test.  A sampler is built, the source is seeded   *)
(* and up to MaxDraws values are drawn into log.first (expected_res); the     *)
(* source is seeded again with the same value and as many values are drawn    *)
(* into log.second.  Meanwhile the program may construct other samplers,      *)
(* which draws nothing from the source.                                       *)

(* the argument lists the test program passes: parallel and non-empty *)
SeedArgs == {a \in NumLists \X ProbLists : Len(a[1]) = Len(a[2]) /\ Len(a[1]) >= 1}

(* random_gen = RandomGen(random_nums, probabilities) *)
Build(ns, ps) ==
    /\ log.run = 0
    /\ ~samplers[1].live
    /\ Construct(1, ns, ps)
    /\ UNCHANGED log

(* random.seed(a), before the expected results are drawn *)
StartRun(a) ==
    /\ log.run = 0
    /\ samplers[1].live
    /\ Seed(a)
    /\ log' = [run |-> 1, seed |-> a, first |-> <<>>, second |-> <<>>]

(* random.seed(a) again, with the same a *)
Replay ==
    /\ log.run = 1
    /\ Len(log.first) >= 1
    /\ Seed(log.seed)
    /\ log' = [log EXCEPT !.run = 2]

(* random_gen.next_num(), its result (value or exception) appended to the run's list *)
Draw ==
    /\ log.run \in {1, 2}
    /\ log.run = 1 => Len(log.first) < MaxDraws
    /\ log.run = 2 => Len(log.second) < Len(log.first)
    /\ NextNum(1)
    /\ log' = IF log.run = 1
              THEN [log EXCEPT !.first = Append(@, [error |-> ret'.error, num |-> ret'.num])]
              ELSE [log EXCEPT !.second = Append(@, [error |-> ret'.error, num |-> ret'.num])]

(* other = RandomGen(ns, ps), in another variable, while the runs go on; *)
(* tried until it succeeds once                                          *)
Other(ns, ps) ==
    /\ log.run \in {1, 2}
    /\ ~samplers[2].live
    /\ Construct(2, ns, ps)
    /\ UNCHANGED log

NextSeed ==
    \/ \E a \in SeedArgs : Build(a[1], a[2])
    \/ \E a \in RngStates : StartRun(a)
    \/ Replay
    \/ Draw
    \/ \E a \in SeedArgs : Other(a[1], a[2])

SpecSeed == Init /\ [][NextSeed]_vars

------------------------------------------------------------------------------
(* SpecDraw: one sampler, built from probabilities that are multiples of   *)
(* 1/d for a d in Denominators (or 1e-30), with the outcomes 1 .. N, then  *)
(* seeded and drawn from.                                                  *)

DyadicDenominators == {Pow(2, j) : j \in 0..RollBits}
Denominators == DyadicDenominators \cup {5}

DrawProbs ==
    UNION {{PyFloat((j * 1000) \div d, 0) : j \in 0..d} : d \in Denominators}
        \cup {PyFloat(0, 1)}

DrawProbLists == SeqsUpTo(DrawProbs, MaxDrawLen)

InitDraw ==
    /\ Fresh
    /\ rng = 0
    /\ args \in {[random_nums |-> [i \in 1..Len(ps) |-> PyInt(i)], probabilities |-> ps,
                  table |-> <<>>, roll |-> Zero] : ps \in DrawProbLists}

NextDraw ==
    \/ ConstructArgs /\ UNCHANGED log
    \/ \E a \in RngStates : samplers[1].live /\ Seed(a) /\ UNCHANGED log
    \/ NextNum(1) /\ UNCHANGED log

SpecDraw == InitDraw /\ [][NextDraw]_vars

------------------------------------------------------------------------------
(* The vocabulary of the claims *)

(* the error taxonomy, from the exception class and message the code raises; *)
(* the TypeError Python itself raises for str < 0 counts as a probability of *)
(* the wrong type                                                            *)
Taxonomy(e) ==
    IF e = LengthError THEN "LengthMismatch"
    ELSE IF e = NumsTypeError THEN "InvalidOutcomeType"
    ELSE IF e \in {FloatTypeError, CompareTypeError} THEN "InvalidProbabilityType"
    ELSE IF e \in {NegativeError, GreaterError} THEN "InvalidProbability"
    ELSE IF e = SumError THEN "ProbabilitySumError"
    ELSE "Other"

DefinedErrors ==
    {"LengthMismatch", "InvalidOutcomeType", "InvalidProbabilityType",
     "InvalidProbability", "ProbabilitySumError"}

Constructed == ret.op = "RandomGen"
Succeeded == Constructed /\ ret.error = NoError
Failed == Constructed /\ ret.error # NoError

IsNumber(p) == p.type \in {"float", "int"}
OutOfRange(p) == IsNumber(p) /\ (NumLt(p, Zero) \/ NumLt(One, p))
BadProbability(p) == p.type # "float" \/ OutOfRange(p)

LengthViolated == Len(args.random_nums) # Len(args.probabilities)
OutcomeViolated == \E i \in 1..Len(args.random_nums) : args.random_nums[i].type # "int"
TypeViolated == \E i \in 1..Len(args.probabilities) : args.probabilities[i].type # "float"
RangeViolated == \E i \in 1..Len(args.probabilities) : OutOfRange(args.probabilities[i])
ProbabilityViolated == TypeViolated \/ RangeViolated
SumViolated == ~NumEq(ExactSum(args.probabilities, Len(args.probabilities)), One)

ValidArgs ==
    /\ ~LengthViolated
    /\ Len(args.random_nums) >= 1
    /\ ~OutcomeViolated
    /\ ~ProbabilityViolated
    /\ ~SumViolated

(* the error a bad probability earns: a number outside [0, 1] is an invalid *)
(* probability, anything else that is not a float is of the wrong type      *)
ProbabilityKind(p) == IF OutOfRange(p) THEN "InvalidProbability" ELSE "InvalidProbabilityType"

FirstBadProbability ==
    LET ps == args.probabilities
        i == CHOOSE j \in 1..Len(ps) :
                 BadProbability(ps[j]) /\ \A k \in 1..(j - 1) : ~BadProbability(ps[k])
    IN  ps[i]

ViolatedChecks ==
    (IF LengthViolated THEN 1 ELSE 0) + (IF ProbabilityViolated THEN 1 ELSE 0)
    + (IF OutcomeViolated THEN 1 ELSE 0) + (IF SumViolated THEN 1 ELSE 0)

(* the error of the first violated check, in the order the specification gives *)
SpecOrderError ==
    IF LengthViolated THEN "LengthMismatch"
    ELSE IF ProbabilityViolated THEN ProbabilityKind(FirstBadProbability)
    ELSE IF OutcomeViolated THEN "InvalidOutcomeType"
    ELSE "ProbabilitySumError"

(* and in the order the code checks *)
CodeOrderError ==
    IF LengthViolated THEN "LengthMismatch"
    ELSE IF OutcomeViolated THEN "InvalidOutcomeType"
    ELSE IF ProbabilityViolated THEN ProbabilityKind(FirstBadProbability)
    ELSE "ProbabilitySumError"

------------------------------------------------------------------------------
(* Claims, checked under Spec *)

(* C1: every value next_num() returns on a sampler is a member of the outcome *)
(* sequence that sampler was constructed with.                                *)
C1_Closure ==
    (ret.op = "next_num" /\ ret.error = NoError) => ret.num \in Elems(given[ret.who])

(* C2: next_num() on a constructed sampler never raises, whatever the roll and *)
(* whatever was drawn or constructed in between.                               *)
C2_NextNumNeverFails == ret.op = "next_num" => ret.error = NoError

(* C6: a construction that fails with a validation error changes no state:    *)
(* not the descriptor's list, not any sampler, not the random source.         *)
C6_FailedConstructionChangesNothing ==
    [][(ret'.op = "RandomGen" /\ Taxonomy(ret'.error) \in DefinedErrors)
        => (value' = value /\ samplers' = samplers /\ rng' = rng)]_vars

(* C7: a sampler is immutable: unless its variable is bound to a new sampler, *)
(* no operation changes its outcome sequence, its probabilities or its        *)
(* cumulative table, and next_num() changes the random source only.           *)
C7_SamplerImmutable ==
    [][/\ \A s \in 1..MaxSamplers :
            (samplers[s].live /\ ~(ret'.op = "RandomGen" /\ ret'.who = s /\ ret'.error = NoError))
                => (samplers'[s] = samplers[s] /\ RandomNumberList__get__' = RandomNumberList__get__)
       /\ ret'.op = "next_num" => (value' = value /\ samplers' = samplers)]_vars

------------------------------------------------------------------------------
(* Claims, checked under SpecCtor *)

(* C3: RandomGen(outcomes, probabilities) succeeds exactly when the lengths   *)
(* are equal and at least 1, every outcome is an integer, every probability   *)
(* is a float in [0.0, 1.0] and the probabilities sum to exactly 1.           *)
C3_SucceedsIffValid == Constructed => (Succeeded <=> ValidArgs)

(* C4: a failing construction raises one of the five defined errors, and the *)
(* error names a condition the arguments violate.                             *)
C4_FailsWithDefinedError ==
    Failed =>
        LET kind == Taxonomy(ret.error)
        IN  /\ kind \in DefinedErrors
            /\ kind = "LengthMismatch" => LengthViolated
            /\ kind = "InvalidOutcomeType" => OutcomeViolated
            /\ kind = "InvalidProbabilityType" => TypeViolated
            /\ kind = "InvalidProbability" => RangeViolated
            /\ kind = "ProbabilitySumError" => SumViolated

(* C5, as claimed: arguments that violate more than one check fail with the   *)
(* error of the first violated check in the order length, probabilities,      *)
(* outcomes, sum.                                                             *)
C5_SpecOrder == (Constructed /\ ViolatedChecks > 1) => Taxonomy(ret.error) = SpecOrderError

(* C5, amended: arguments that violate more than one check fail with the      *)
(* error of the first violated check in the order length, outcomes,           *)
(* probabilities (the first bad element deciding), sum.                       *)
C5_CodeOrder == (Constructed /\ ViolatedChecks > 1) => Taxonomy(ret.error) = CodeOrderError

(* a construction failed on a non-integer outcome although a probability of  *)
(* the same call is out of range                                              *)
C5_Witness ==
    /\ Failed
    /\ ~LengthViolated /\ OutcomeViolated /\ RangeViolated
    /\ Taxonomy(ret.error) = "InvalidOutcomeType"

(* C8: a constructed sampler's cumulative table has one entry per outcome,    *)
(* entry i is the exact sum of the first i probabilities, the entries do not  *)
(* decrease, lie in [0, 1], and the last is exactly 1.                        *)
C8_CumulativeTable ==
    Succeeded =>
        LET cs == samplers[ret.who].cum_probabilities
            ps == args.probabilities
            n == Len(args.random_nums)
        IN  /\ Len(cs) = n
            /\ \A i \in 1..n : NumEq(cs[i], ExactSum(ps, i))
            /\ NonDecreasing(cs)
            /\ \A i \in 1..n : NumLe(Zero, cs[i]) /\ NumLe(cs[i], One)
            /\ NumEq(cs[n], One)

------------------------------------------------------------------------------
(* Claims, checked under SpecLookup *)

Looked == ret.op = "find_index"
WellFormed(tb) == Len(tb) >= 1 /\ NonDecreasing(tb) /\ NumEq(tb[Len(tb)], One)

(* a roll approaching 1.0 from below: no entry of the table lies between it and 1.0 *)
NearOne(tb, r) == NumLt(r, One) /\ \A i \in 1..Len(tb) : NumLt(tb[i], One) => NumLe(tb[i], r)

(* C9: the lookup returns the smallest index whose entry is greater than the  *)
(* roll (the length of the table when there is none): every entry before it   *)
(* is at most the roll, so a roll equal to an entry goes to a later bucket.   *)
C9_StrictUpperBound ==
    Looked =>
        LET tb == args.table
            k == ret.index                      \* 0-based, as the code returns it
        IN  /\ k \in 0..Len(tb)
            /\ \A i \in 1..k : NumLe(tb[i], args.roll)
            /\ k < Len(tb) => NumLt(args.roll, tb[k + 1])

(* a roll equal to an entry in the middle of a table of three or more went to *)
(* the bucket after it                                                        *)
C9_Witness ==
    /\ Looked
    /\ Len(args.table) >= 3
    /\ \E i \in 1..(Len(args.table) - 1) :
            /\ NumEq(args.table[i], args.roll)
            /\ NumLt(args.roll, args.table[i + 1])
            /\ ret.index = i

(* C10, as claimed: on a well-formed table and a roll below 1.0 the lookup    *)
(* returns an index below N, and a roll approaching 1.0 gets the last index.  *)
C10_LastIndex ==
    (Looked /\ WellFormed(args.table) /\ NumLt(args.roll, One)) =>
        /\ ret.index \in 0..(Len(args.table) - 1)
        /\ NearOne(args.table, args.roll) => ret.index = Len(args.table) - 1

(* C10, amended: the index is below N, and a roll approaching 1.0 gets the    *)
(* first index whose entry is 1.0, which is the last index when the entry     *)
(* before the last is below 1.0.                                              *)
C10_FirstOneIndex ==
    (Looked /\ WellFormed(args.table) /\ NumLt(args.roll, One)) =>
        LET tb == args.table
            n == Len(tb)
        IN  /\ ret.index \in 0..(n - 1)
            /\ NearOne(tb, args.roll) =>
                  /\ NumEq(tb[ret.index + 1], One)
                  /\ \A i \in 1..ret.index : NumLt(tb[i], One)
                  /\ (n = 1 \/ NumLt(tb[n - 1], One)) => ret.index = n - 1

(* a roll approaching 1.0 was looked up in a table whose last two entries are *)
(* both 1.0, and did not get the last index                                   *)
C10_Witness ==
    /\ Looked /\ WellFormed(args.table) /\ NearOne(args.table, args.roll)
    /\ Len(args.table) >= 3
    /\ NumEq(args.table[Len(args.table) - 1], One)
    /\ ret.index < Len(args.table) - 1

------------------------------------------------------------------------------
(* Claims, checked under SpecSeed *)

(* C11: two runs of next_num() calls on one sampler, each begun by seeding  *)
(* the random source with the same value, return the same sequence of      *)
(* results, call for call.                                                  *)
C11_SameSeedSameSequence ==
    log.run = 2 => \A i \in 1..Len(log.second) : log.second[i] = log.first[i]

------------------------------------------------------------------------------
(* Claims, checked under SpecDraw *)

Probabilities == samplers[1].probabilities
Valid == samplers[1].live /\ NumEq(ExactSum(Probabilities, Len(Probabilities)), One)

MultiplesOf(d) ==
    \A i \in 1..Len(Probabilities) :
        Probabilities[i].t = 0 /\ (Probabilities[i].m * d) % 1000 = 0

(* how many of the d rolls k / d make next_num() select index i *)
Selecting(d, i) == Cardinality({k \in 0..(d - 1) : roll_index(1, float_div(k, d)) = i})

ExactCounts(d) ==
    (Valid /\ MultiplesOf(d)) =>
        \A i \in 1..Len(Probabilities) : Selecting(d, i - 1) * 1000 = Probabilities[i].m * d

(* C12: for a valid sampler whose probabilities are all multiples of 1/D,   *)
(* exactly probabilities[i] * D of the D rolls k/D select index i, for      *)
(* every D.                                                                 *)
C12_ExactCounts == \A d \in Denominators : ExactCounts(d)

(* C12, amended: the same for D a power of two, where every roll k/D is a   *)
(* float (the rolls the random source emits are of this kind); for other D  *)
(* the float nearest k/D may lie below a table entry equal to k/D.          *)
C12_ExactCountsDyadic ==
    /\ \A d \in DyadicDenominators : ExactCounts(d)
    /\ \A k \in RngStates : RngRoll(k) = float_div(k, Pow(2, RollBits))

C12_Witness ==
    /\ Valid
    /\ MultiplesOf(Pow(2, RollBits))
    /\ Len(Probabilities) = 3
    /\ Probabilities[1].m = 250
    /\ Probabilities[3].m = 500
    /\ ret.op = "next_num"
    /\ ret.index = 2

(* the first index whose probability is not zero *)
FirstPositive ==
    CHOOSE i \in 1..Len(Probabilities) :
        /\ NumLt(Zero, Probabilities[i])
        /\ \A j \in 1..(i - 1) : NumEq(Probabilities[j], Zero)

Positive(index) == index < Len(Probabilities) /\ NumLt(Zero, Probabilities[index + 1])

(* C13: for a constructed sampler, every roll in [0.0, 1.0) selects an     *)
(* index whose probability is strictly positive; the roll 0.0 selects the  *)
(* first index whose probability is not zero (index 0 when                 *)
(* probabilities[0] > 0); next_num() never selects an index whose          *)
(* probability is 0.                                                       *)
C13_ZeroSkipped ==
    samplers[1].live =>
        /\ \A d \in Denominators : \A k \in 0..(d - 1) : Positive(roll_index(1, float_div(k, d)))
        /\ \A k \in RngStates : Positive(number_index_at(1, k))
        /\ roll_index(1, Zero) = FirstPositive - 1
        /\ NumLt(Zero, Probabilities[1]) => roll_index(1, Zero) = 0
        /\ ret.op = "next_num" => ret.error = NoError /\ Positive(ret.index)

C13_Witness ==
    /\ samplers[1].live
    /\ Len(Probabilities) = 3
    /\ NumEq(Probabilities[1], Zero)
    /\ NumEq(Probabilities[2], Zero)
    /\ ret.op = "next_num"
    /\ rng = RngNext(0)
    /\ ret.index = 2

====
